---- MODULE Spec2Model ----
(***************************************************************************)
(* TurtVenture: the side-scrolling turtle game of main.py and main2.py.    *)
(*                                                                         *)
(* The two files are variants of one program; `variant` (1 = main.py,      *)
(* 2 = main2.py) selects the code that every operator below follows.       *)
(* Coordinates are the turtle coordinates of the source.  The horizontal   *)
(* speed and the wobble of a pickup are real numbers in the source and     *)
(* are drawn here from the integer points of their ranges.                 *)
(*                                                                         *)
(* The program is single threaded.  A state of the model is a point at     *)
(* which the Tk event loop has control: between two game_loop timer        *)
(* callbacks (pc = "timer"), inside screen.update() in the collision       *)
(* branch of main2's handle_obstacle (pc = "hit"), or after the game-over  *)
(* screen was drawn (pc = "over").  Key handlers run at those points.      *)
(***************************************************************************)
EXTENDS Integers, Sequences, FiniteSets, TLC

(* ---------------- program constants ---------------- *)
SCREEN_WIDTH == 1200
SCREEN_HEIGHT == 600
PLAYER_SIZE == 100
OBJECT_SIZE == SCREEN_HEIGHT \div 5
\* -SCREEN_WIDTH // 2 + round(1 / 3 * SCREEN_WIDTH)
WALL == (-SCREEN_WIDTH) \div 2 + SCREEN_WIDTH \div 3
GRAVITY == 1
PLAYER_SPEED == 15
OBJECT_SPEED == 6
BUFFER == 20
HITPOINTS == 5
HITPOINTS_MAIN == 1
JUMP_IMPULSE == 15
N_OBSTACLES == 10
N_PICKUPS == 10
OBSTACLE_THRESHOLD == 30
PICKUP_THRESHOLD == 12
OBSTACLE_CAP == 10
PICKUP_CAP == 1
PICKUP_TIMER_START == 15
DODGE_POINTS == 1
PICKUP_POINTS == 5

(* ---------------- bounds of the exploration ---------------- *)
\* ticks explored with free inputs after the scripted prefix of a scenario
MaxFree == 3
\* key events delivered at one event-loop point while inputs are free
MaxKeys == 2

(* ---------------- derived positions ---------------- *)
Abs(n) == IF n < 0 THEN -n ELSE n

\* ground level of the player: -SCREEN_HEIGHT // 2 + PLAYER_SIZE // 2
GROUND == (-SCREEN_HEIGHT) \div 2 + PLAYER_SIZE \div 2

PLAYER_START_X == (-SCREEN_WIDTH) \div 3

\* spawn point of obstacles and pickups
SPAWN_X == SCREEN_WIDTH + OBJECT_SIZE \div 2

OBSTACLE_Y == (-SCREEN_HEIGHT) \div 2 + OBJECT_SIZE \div 4

Obstacles == 1..N_OBSTACLES

Pickups == 1..N_PICKUPS

Keys == {"a", "d", "space"}

VARIABLES
  variant,            \* 1: main.py, 2: main2.py
  px, py, dy,         \* Player: xcor(), ycor(), dy
  hitpoints,          \* Player.hitpoints
  obstacles,          \* Obstacle objects: [x, y, counted] of each
  waiting_obstacles,  \* list of obstacles
  in_play_obstacles,  \* list of obstacles
  pickups,            \* Pickup objects: [x, y] of each
  waiting_pickups,    \* list of pickups
  in_play_pickups,    \* list of pickups
  score,
  obstacle_timer,
  pickup_timer,
  keys,               \* keys with a handler bound by screen.onkeypress
  listening,          \* screen.listen() was called
  pc,                 \* "timer", "hit", "over" or "crashed"
  cur,                \* index of the obstacle loop while pc = "hit"
  game_over_events,   \* number of times the game-over screen was drawn
  hist,               \* bookkeeping of what happened (not program state)
  scenario            \* the inputs of the scripted prefix of the run

vars == <<variant, px, py, dy, hitpoints, obstacles, waiting_obstacles,
          in_play_obstacles, pickups, waiting_pickups, in_play_pickups,
          score, obstacle_timer, pickup_timer, keys, listening, pc, cur,
          game_over_events, hist, scenario>>

(* ---------------- Player ---------------- *)
\* move_left without the guard of main2
move_left_unbounded(v, x) == x - PLAYER_SPEED

\* Player.move_left: the new x
move_left(v, x) ==
  IF v = 1 THEN x - PLAYER_SPEED
  ELSE IF x - OBJECT_SIZE \div 2 > (-SCREEN_WIDTH) \div 2
       THEN x - PLAYER_SPEED ELSE x

\* move_right with a doubled step
move_right_double(v, x) ==
  IF v = 1 THEN x + 2 * PLAYER_SPEED
  ELSE IF x + OBJECT_SIZE \div 2 < WALL
       THEN x + 2 * PLAYER_SPEED ELSE x

\* Player.move_right: the new x (0.5 * OBJECT_SIZE is OBJECT_SIZE \div 2)
move_right(v, x) ==
  IF v = 1 THEN x + PLAYER_SPEED
  ELSE IF x + OBJECT_SIZE \div 2 < WALL
       THEN x + PLAYER_SPEED ELSE x

\* jump that also works a little above the ground
jump_near_ground(y, d) == IF y <= GROUND + PLAYER_SIZE THEN JUMP_IMPULSE ELSE d

\* jump without the test for the ground
jump_anywhere(y, d) == JUMP_IMPULSE

\* Player.jump: the new dy
jump(y, d) == IF y <= GROUND THEN JUMP_IMPULSE ELSE d

\* fall that clamps only below the ground (< for <=)
fall_strict(y, d) ==
  LET y1 == y + d
      d1 == d - GRAVITY
  IN IF y1 < GROUND THEN [y |-> GROUND, dy |-> 0] ELSE [y |-> y1, dy |-> d1]

\* Player.fall: the new [y, dy]
fall(y, d) ==
  LET y1 == y + d
      d1 == d - GRAVITY
  IN IF y1 <= GROUND THEN [y |-> GROUND, dy |-> 0] ELSE [y |-> y1, dy |-> d1]

(* ---------------- objects ---------------- *)
\* Obstacle.is_out_of_screen / Pickup.is_out_of_screen
is_out_of_screen(x) == x < (-SCREEN_WIDTH) \div 2 - OBJECT_SIZE \div 2

\* SidescrollingGame.check_collision
check_collision(ox, oy, ppx, ppy) ==
  /\ Abs(ox - ppx) < OBJECT_SIZE \div 2 - BUFFER
  /\ Abs(oy - ppy) < OBJECT_SIZE \div 2 - BUFFER

\* SidescrollingGame.game_over
game_over(hp) == hp <= 0

\* list.remove(e): the list without the first occurrence of e
RemoveFirst(s, e) ==
  LET k == CHOOSE i \in 1..Len(s) : s[i] = e /\ \A j \in 1..(i - 1) : s[j] # e
  IN SubSeq(s, 1, k - 1) \o SubSeq(s, k + 1, Len(s))

InList(s, e) == \E i \in 1..Len(s) : s[i] = e

\* what an obstacle did since its admission
NewLife == [dodges |-> 0, damage |-> 0, inrange |-> FALSE, behind |-> FALSE]

(***************************************************************************)
(* The body of a tick works on a record w of the fields it changes:        *)
(* obstacles, in_play_obstacles, waiting_obstacles, pickups,               *)
(* in_play_pickups, waiting_pickups, hitpoints, score, fault (a            *)
(* ValueError of list.remove was raised), paused and cur (the obstacle     *)
(* loop stopped inside screen.update() at index cur), and the bookkeeping  *)
(* fields life, exits, ndodge, npick, moved, pmoved, and of the running    *)
(* tick: nmoves (calls of Obstacle.move), seen (obstacles resolved in      *)
(* collision range and on the screen), hits (obstacles that took a         *)
(* hitpoint, in order), dodged, recycled (obstacles reset, in order),      *)
(* pseen (pickups resolved in collision range and on the screen), picked   *)
(* and precycled (pickups collected, pickups reset, in order).             *)
(***************************************************************************)

\* reset_obstacle that forgets to append to the waiting list
reset_obstacle_leak(w, o, path) ==
  IF ~InList(w.in_play_obstacles, o)
  THEN [w EXCEPT !.fault = TRUE]
  ELSE [w EXCEPT
          !.in_play_obstacles = RemoveFirst(@, o),
          !.recycled = Append(@, o),
          !.obstacles[o] = [x |-> SPAWN_X, y |-> OBSTACLE_Y, counted |-> FALSE],
          !.exits[o] = [path |-> path, dodges |-> w.life[o].dodges,
                        damage |-> w.life[o].damage,
                        inrange |-> w.life[o].inrange,
                        x |-> w.obstacles[o].x],
          !.life[o] = NewLife]

\* reset_obstacle that leaves the obstacle where it is
reset_obstacle_stay(w, o, path) ==
  IF ~InList(w.in_play_obstacles, o)
  THEN [w EXCEPT !.fault = TRUE]
  ELSE [w EXCEPT
          !.in_play_obstacles = RemoveFirst(@, o),
          !.waiting_obstacles = Append(@, o),
          !.recycled = Append(@, o),
          !.obstacles[o].counted = FALSE,
          !.exits[o] = [path |-> path, dodges |-> w.life[o].dodges,
                        damage |-> w.life[o].damage,
                        inrange |-> w.life[o].inrange,
                        x |-> w.obstacles[o].x],
          !.life[o] = NewLife]

\* reset_obstacle that puts the obstacle at the head of the waiting list
reset_obstacle_front(w, o, path) ==
  IF ~InList(w.in_play_obstacles, o)
  THEN [w EXCEPT !.fault = TRUE]
  ELSE [w EXCEPT
          !.in_play_obstacles = RemoveFirst(@, o),
          !.waiting_obstacles = <<o>> \o @,
          !.recycled = Append(@, o),
          !.obstacles[o] = [x |-> SPAWN_X, y |-> OBSTACLE_Y, counted |-> FALSE],
          !.exits[o] = [path |-> path, dodges |-> w.life[o].dodges,
                        damage |-> w.life[o].damage,
                        inrange |-> w.life[o].inrange,
                        x |-> w.obstacles[o].x],
          !.life[o] = NewLife]

\* SidescrollingGame.reset_obstacle; path tells the caller for the record
reset_obstacle(w, o, path) ==
  IF ~InList(w.in_play_obstacles, o)
  THEN [w EXCEPT !.fault = TRUE]
  ELSE [w EXCEPT
          !.in_play_obstacles = RemoveFirst(@, o),
          !.waiting_obstacles = Append(@, o),
          !.recycled = Append(@, o),
          !.obstacles[o] = [x |-> SPAWN_X, y |-> OBSTACLE_Y, counted |-> FALSE],
          !.exits[o] = [path |-> path, dodges |-> w.life[o].dodges,
                        damage |-> w.life[o].damage,
                        inrange |-> w.life[o].inrange,
                        x |-> w.obstacles[o].x],
          !.life[o] = NewLife]

\* SidescrollingGame.reset_pickup; y is the random.randint draw
reset_pickup(w, p, y) ==
  IF ~InList(w.in_play_pickups, p)
  THEN [w EXCEPT !.fault = TRUE]
  ELSE [w EXCEPT
          !.in_play_pickups = RemoveFirst(@, p),
          !.waiting_pickups = Append(@, p),
          !.precycled = Append(@, p),
          !.pickups[p] = [x |-> SPAWN_X, y |-> y]]

\* Obstacle.move
obstacle_move(w, o) ==
  [w EXCEPT !.obstacles[o].x = @ - OBJECT_SPEED, !.moved = @ \cup {o},
            !.nmoves = @ + 1]

\* Pickup.move at three times its speed
pickup_move_fast(w, p, speed, wobble) ==
  [w EXCEPT !.pickups[p].x = @ - 3 * speed, !.pickups[p].y = @ + wobble,
            !.pmoved = @ \cup {p}]

\* Pickup.move with its two random.uniform draws
pickup_move(w, p, speed, wobble) ==
  [w EXCEPT !.pickups[p].x = @ - speed, !.pickups[p].y = @ + wobble,
            !.pmoved = @ \cup {p}]

\* the bookkeeping of a handle_obstacle call: was o in collision range,
\* was o, already counted, not left of the player
SeeRange(w, o, ppx, ppy) ==
  [w EXCEPT
     !.seen =
        IF check_collision(w.obstacles[o].x, w.obstacles[o].y, ppx, ppy)
           /\ ~is_out_of_screen(w.obstacles[o].x)
        THEN @ \cup {o} ELSE @,
     !.life[o].inrange =
        @ \/ check_collision(w.obstacles[o].x, w.obstacles[o].y, ppx, ppy),
     !.life[o].behind =
        @ \/ (w.obstacles[o].counted /\ w.obstacles[o].x >= ppx)]

\* the dodge branch without obstacle.counted = True
count_dodge_unmarked(w, o) ==
  [w EXCEPT !.score = @ + DODGE_POINTS,
            !.ndodge = @ + 1, !.life[o].dodges = @ + 1,
            !.dodged = @ \cup {o}]

\* the dodge branch of handle_obstacle
count_dodge(w, o) ==
  [w EXCEPT !.score = @ + DODGE_POINTS, !.obstacles[o].counted = TRUE,
            !.ndodge = @ + 1, !.life[o].dodges = @ + 1,
            !.dodged = @ \cup {o}]

\* the collision branch with the sign of the damage wrong
take_damage_heal(w, o) ==
  reset_obstacle([w EXCEPT !.hitpoints = @ + 1, !.life[o].damage = @ + 1,
                           !.hits = Append(@, o)],
                 o, "collision")

\* the collision branch taking two hitpoints
take_damage_double(w, o) ==
  reset_obstacle([w EXCEPT !.hitpoints = @ - 2, !.life[o].damage = @ + 1,
                           !.hits = Append(@, o)],
                 o, "collision")

\* the statements of the collision branch that change the game
\* (main.py 168-170, main2.py 196-198)
take_damage(w, o) ==
  reset_obstacle([w EXCEPT !.hitpoints = @ - 1, !.life[o].damage = @ + 1,
                           !.hits = Append(@, o)],
                 o, "collision")

\* main.py handle_obstacle
handle_obstacle_main(w, o, ppx, ppy) ==
  LET w0 == SeeRange(w, o, ppx, ppy)
      w1 == IF check_collision(w0.obstacles[o].x, w0.obstacles[o].y, ppx, ppy)
            THEN take_damage(w0, o)
            ELSE IF w0.obstacles[o].x < ppx /\ ~w0.obstacles[o].counted
                 THEN count_dodge(w0, o)
                 ELSE w0
  IN IF ~w1.fault /\ is_out_of_screen(w1.obstacles[o].x)
     THEN reset_obstacle(w1, o, "offscreen")
     ELSE w1

\* main2.py handle_obstacle that treats an obstacle leaving the screen as a hit
handle_obstacle_main2_offhit(w, o, ppx, ppy) ==
  LET w0 == SeeRange(w, o, ppx, ppy)
  IN IF is_out_of_screen(w0.obstacles[o].x)
     THEN take_damage(w0, o)
     ELSE IF check_collision(w0.obstacles[o].x, w0.obstacles[o].y, ppx, ppy)
          THEN [w0 EXCEPT !.paused = TRUE]
          ELSE IF w0.obstacles[o].x < ppx /\ ~w0.obstacles[o].counted
               THEN count_dodge(w0, o)
               ELSE w0

\* main2.py handle_obstacle up to screen.update() in the collision branch,
\* where it stops (paused) and lets the event loop run
handle_obstacle_main2(w, o, ppx, ppy) ==
  LET w0 == SeeRange(w, o, ppx, ppy)
  IN IF is_out_of_screen(w0.obstacles[o].x)
     THEN reset_obstacle(w0, o, "offscreen")
     ELSE IF check_collision(w0.obstacles[o].x, w0.obstacles[o].y, ppx, ppy)
          THEN [w0 EXCEPT !.paused = TRUE]
          ELSE IF w0.obstacles[o].x < ppx /\ ~w0.obstacles[o].counted
               THEN count_dodge(w0, o)
               ELSE w0

handle_obstacle(v, w, o, ppx, ppy) ==
  IF v = 1 THEN handle_obstacle_main(w, o, ppx, ppy)
  ELSE handle_obstacle_main2(w, o, ppx, ppy)

\* handle_pickup of main.py with a pickup that costs a hitpoint
handle_pickup_main_hurt(w, p, ppx, ppy, y) ==
  LET w1 == IF check_collision(w.pickups[p].x, w.pickups[p].y, ppx, ppy)
            THEN reset_pickup([w EXCEPT !.score = @ + PICKUP_POINTS,
                                        !.hitpoints = @ - 1,
                                        !.npick = @ + 1,
                                        !.picked = Append(@, p)], p, y)
            ELSE w
  IN IF ~w1.fault /\ is_out_of_screen(w1.pickups[p].x)
     THEN reset_pickup(w1, p, y)
     ELSE w1

\* main.py handle_pickup
handle_pickup_main(w, p, ppx, ppy, y) ==
  LET w1 == IF check_collision(w.pickups[p].x, w.pickups[p].y, ppx, ppy)
            THEN reset_pickup([w EXCEPT !.score = @ + PICKUP_POINTS,
                                        !.npick = @ + 1,
                                        !.picked = Append(@, p)], p, y)
            ELSE w
  IN IF ~w1.fault /\ is_out_of_screen(w1.pickups[p].x)
     THEN reset_pickup(w1, p, y)
     ELSE w1

\* main2.py handle_pickup
handle_pickup_main2(w, p, ppx, ppy, y) ==
  IF is_out_of_screen(w.pickups[p].x)
  THEN reset_pickup(w, p, y)
  ELSE IF check_collision(w.pickups[p].x, w.pickups[p].y, ppx, ppy)
       THEN reset_pickup([w EXCEPT !.score = @ + PICKUP_POINTS,
                                   !.npick = @ + 1,
                                   !.picked = Append(@, p)], p, y)
       ELSE w

\* the bookkeeping of a handle_pickup call: was p in collision range and
\* on the screen
SeePickup(w, p, ppx, ppy) ==
  [w EXCEPT
     !.pseen =
        IF check_collision(w.pickups[p].x, w.pickups[p].y, ppx, ppy)
           /\ ~is_out_of_screen(w.pickups[p].x)
        THEN @ \cup {p} ELSE @]

handle_pickup(v, w, p, ppx, ppy, y) ==
  IF v = 1 THEN handle_pickup_main(SeePickup(w, p, ppx, ppy), p, ppx, ppy, y)
  ELSE handle_pickup_main2(SeePickup(w, p, ppx, ppy), p, ppx, ppy, y)

\* for obstacle in self.in_play_obstacles: move, handle.  The list iterator
\* of Python keeps an index i into the list it walks: a removal during the
\* walk shifts the later elements under it.
RECURSIVE ObstacleLoop(_, _, _, _, _)
ObstacleLoop(v, w, i, ppx, ppy) ==
  IF w.fault \/ i > Len(w.in_play_obstacles)
  THEN w
  ELSE LET o == w.in_play_obstacles[i]
           w1 == handle_obstacle(v, obstacle_move(w, o), o, ppx, ppy)
       IN IF w1.paused THEN [w1 EXCEPT !.cur = i]
          ELSE ObstacleLoop(v, w1, i + 1, ppx, ppy)

\* for pickup in self.in_play_pickups: move, handle
RECURSIVE PickupLoop(_, _, _, _, _, _, _, _)
PickupLoop(v, w, i, ppx, ppy, speed, wobble, y) ==
  IF w.fault \/ i > Len(w.in_play_pickups)
  THEN w
  ELSE LET p == w.in_play_pickups[i]
           w1 == handle_pickup(v, pickup_move(w, p, speed, wobble), p, ppx, ppy, y)
       IN PickupLoop(v, w1, i + 1, ppx, ppy, speed, wobble, y)

(* ---------------- inputs ---------------- *)
\* random.uniform(OBJECT_SPEED // 4, OBJECT_SPEED): the integer points
PickupSpeeds == {OBJECT_SPEED \div 4, OBJECT_SPEED}

\* random.uniform(-2, 2): the integer points -2, 0, 2
Wobbles == {-2, 0, 2}

\* the range of random.randint in create_pickup
CreateYs(v) ==
  IF v = 1
  THEN ((-SCREEN_HEIGHT) \div 2 + OBJECT_SIZE \div 2)..((-OBJECT_SIZE) \div 2)
  ELSE ((-SCREEN_HEIGHT) \div 2 + (3 * OBJECT_SIZE) \div 2)..((-OBJECT_SIZE) \div 2 - 45)

\* random.randint in reset_pickup: the two ends of its range
ResetYs == {(-SCREEN_HEIGHT) \div 2 + OBJECT_SIZE \div 2, (-OBJECT_SIZE) \div 2}

(***************************************************************************)
(* A scenario is a run of the program whose first freeAt ticks take        *)
(* scripted inputs, followed by MaxFree ticks with free inputs.  The       *)
(* script is a player and a sequence of draws:                             *)
(*   stand            the player walks to x = stand and stays there        *)
(*   dodgeHp, dodgeMax, jumpLo, jumpHi                                     *)
(*                    with hitpoints <= dodgeHp and fewer than dodgeMax    *)
(*                    obstacles dodged, the player on the ground jumps     *)
(*                    when an obstacle in play is jumpLo..jumpHi right of  *)
(*                    it                                                   *)
(*   dash, dashTo     inside screen.update() of a collision (pc = "hit")   *)
(*                    the player walks to x = dashTo                       *)
(*   admitO, gap      the spawn draw of an obstacle succeeds when fewer    *)
(*                    than admitO were admitted and the timer is >= gap    *)
(*   admitP           the first admitP spawn draws of pickups succeed      *)
(*   pspeed, pwobble  the draws of Pickup.move                             *)
(*   createY, resetY  the draws of create_pickup and reset_pickup          *)
(*   freeDraws        after the prefix the draws are free too, not only    *)
(*                    the keys                                             *)
(*   freeKeys         after the prefix the keys are free (if not, the      *)
(*                    scripted player goes on playing)                     *)
(***************************************************************************)
Base(v) ==
  [variant |-> v, freeAt |-> 0, stand |-> PLAYER_START_X,
   dodgeHp |-> 0, dodgeMax |-> 0, jumpLo |-> 0, jumpHi |-> 0,
   dash |-> FALSE, dashTo |-> 0,
   admitO |-> 0, gap |-> OBSTACLE_THRESHOLD, admitP |-> 0,
   freeDraws |-> FALSE, freeKeys |-> TRUE, pspeed |-> OBJECT_SPEED, pwobble |-> 0,
   createY |-> IF v = 1 THEN (-SCREEN_HEIGHT) \div 2 + OBJECT_SIZE \div 2
               ELSE (-OBJECT_SIZE) \div 2 - 45,
   resetY |-> (-SCREEN_HEIGHT) \div 2 + OBJECT_SIZE \div 2]

\* free inputs from the construction on
FreeRun(v) == [Base(v) EXCEPT !.freeDraws = TRUE]

\* main.py: the player walks right to meet the first obstacles early; two
\* obstacles and two pickups are admitted; the first pickup is collected,
\* the first obstacle reaches the player in tick 62
MeetRun ==
  [Base(1) EXCEPT !.stand = 1025, !.admitO = 2, !.admitP = 2, !.freeAt = 60]

\* as MeetRun, but the player jumps over the first obstacle (tick 61 to 91,
\* highest in ticks 75 and 76)
DodgeRun(freeAt) ==
  [MeetRun EXCEPT !.dodgeHp = 1, !.dodgeMax = 1, !.jumpLo = 46, !.jumpHi = 51,
                  !.freeAt = freeAt]

\* main2.py: the player stays at the start and jumps over the obstacles,
\* which are admitted every 31 ticks (one flight of the player) until the
\* waiting list is empty and leave the screen on the left from tick 351
\* on; the first obstacle is then admitted again
OffscreenRun ==
  [Base(2) EXCEPT !.dodgeHp = HITPOINTS, !.dodgeMax = 11, !.jumpLo = 46,
                  !.jumpHi = 51, !.admitO = 11, !.gap = 31, !.freeAt = 349]

\* main2.py: the player stands at the left wall, is hit by four obstacles,
\* lands on the fifth, and runs to the right wall while screen.update()
\* of that collision handles the pending key events
DoubleHitRun ==
  [Base(2) EXCEPT !.stand = -550, !.admitO = 7, !.dodgeHp = 1, !.dodgeMax = 10,
                  !.jumpLo = 144, !.jumpHi = 149, !.dash = TRUE,
                  !.dashTo = -250, !.freeAt = 458]

\* main.py: no key is pressed and no obstacle admitted in the first 100
\* ticks; a pickup is admitted in tick 1 at the height of the player and
\* moves at its highest speed
IdleRun == [Base(1) EXCEPT !.admitP = 1, !.freeAt = 100]

\* one obstacle is admitted in tick 30; from tick 59 on the draws of the
\* admissions are free: the second obstacle is admitted in tick 60 or
\* later, the first pickup in tick 59 or later
SpawnRun(v) ==
  [Base(v) EXCEPT !.admitO = 1, !.freeAt = 58, !.freeDraws = TRUE,
                  !.freeKeys = FALSE]

\* main.py: the player walks right to x = 1250, next to the spawn
\* position, where a pickup at its height is collected in the tick after
\* its admission or in that very tick; no obstacle is admitted
CampRun ==
  [Base(1) EXCEPT !.stand = 1250, !.admitP = 3, !.freeAt = 24,
                  !.freeDraws = TRUE, !.freeKeys = FALSE]

\* main.py: the player walks left to x = -700, beyond the left edge of the
\* screen; the one obstacle reaches it in tick 350, off the screen
LeftRun ==
  [Base(1) EXCEPT !.stand = -700, !.admitO = 1, !.freeAt = 348]

\* main2.py: the player walks to the left end of its zone, x = -550,
\* and jumps over the one obstacle (tick 323 to 354), which leaves the
\* screen in tick 350
EdgeRun ==
  [Base(2) EXCEPT !.stand = -550, !.dodgeHp = HITPOINTS, !.dodgeMax = 1,
                  !.jumpLo = 46, !.jumpHi = 51, !.admitO = 1, !.freeAt = 347]

Scenarios ==
  {FreeRun(1), FreeRun(2), MeetRun, DodgeRun(69), DodgeRun(74), DodgeRun(89),
   OffscreenRun, DoubleHitRun, IdleRun, SpawnRun(1), SpawnRun(2), CampRun,
   LeftRun, EdgeRun}

Scripted == hist.ticks < scenario.freeAt

\* the keys are those of the scripted player
ScriptedKeys == Scripted \/ ~scenario.freeKeys

\* the obstacle the scripted player jumps over
JumpNow ==
  /\ py = GROUND /\ dy = 0
  /\ hitpoints <= scenario.dodgeHp
  /\ hist.ndodge < scenario.dodgeMax
  /\ \E i \in 1..Len(in_play_obstacles) :
        obstacles[in_play_obstacles[i]].x - px \in scenario.jumpLo..scenario.jumpHi

\* the key the scripted player presses next, "none" when it presses none
ScriptKey ==
  LET target == IF pc = "hit" /\ scenario.dash THEN scenario.dashTo
                ELSE scenario.stand
  IN IF ~listening THEN "none"
     ELSE IF px - target >= PLAYER_SPEED /\ move_left(variant, px) # px THEN "a"
     ELSE IF target - px >= PLAYER_SPEED /\ move_right(variant, px) # px THEN "d"
     ELSE IF pc = "timer" /\ JumpNow THEN "space"
     ELSE "none"

\* the draws of a tick are scripted when the keys are, and in a scenario
\* that keeps its draws (freeDraws = FALSE) also afterwards
ScriptedDraws == Scripted \/ ~scenario.freeDraws

\* random.random() <= 0.5 of the obstacle admission; the condition is
\* evaluated left to right, so nothing is drawn unless the rest holds
ODraws ==
  IF ~(obstacle_timer + 1 >= OBSTACLE_THRESHOLD
       /\ Len(in_play_obstacles) < OBSTACLE_CAP /\ Len(waiting_obstacles) > 0)
  THEN {FALSE}
  ELSE IF ScriptedDraws
       THEN {hist.nadmit_o < scenario.admitO /\ obstacle_timer + 1 >= scenario.gap}
       ELSE BOOLEAN

\* random.random() < 0.2 of the pickup admission
PDraws ==
  IF ~(pickup_timer + 1 >= PICKUP_THRESHOLD
       /\ Len(in_play_pickups) < PICKUP_CAP /\ Len(waiting_pickups) > 0)
  THEN {FALSE}
  ELSE IF ScriptedDraws THEN {hist.nadmit_p < scenario.admitP} ELSE BOOLEAN

\* the draws of Pickup.move, made when a pickup is in play
SpeedDraws(inplay) ==
  IF ScriptedDraws \/ inplay = <<>> THEN {scenario.pspeed} ELSE PickupSpeeds

WobbleDraws(inplay) ==
  IF ScriptedDraws \/ inplay = <<>> THEN {scenario.pwobble} ELSE Wobbles

\* the draw of reset_pickup, made when a pickup is reset
YDraws(reset) ==
  IF ScriptedDraws \/ ~reset THEN {scenario.resetY} ELSE ResetYs

\* a key event for key k is delivered (every state is a state of the event
\* loop): the canvas has the focus and a handler is bound to k
KeyEvent(k) ==
  /\ listening
  /\ k \in keys
  /\ IF ScriptedKeys THEN ScriptKey = k ELSE hist.key_count < MaxKeys

(* ---------------- initial state ---------------- *)
InitHist ==
  [ticks |-> 0, branch |-> "none", hp_start |-> 0,
   key_count |-> 0, key_moves |-> 0, keyed |-> FALSE, px_tick |-> PLAYER_START_X,
   dy_tick |-> 0,
   nadmit_o |-> 0, nadmit_p |-> 0,
   admit_o |-> FALSE, admit_p |-> FALSE, otimer_prev |-> 0, ptimer_prev |-> 0,
   last_o |-> 0, last_p |-> 0, gap_o |-> 0, gap_p |-> 0,
   life |-> [o \in Obstacles |-> NewLife],
   exits |-> [o \in Obstacles |->
                [path |-> "none", dodges |-> 0, damage |-> 0, inrange |-> FALSE,
                 x |-> SPAWN_X]],
   ndodge |-> 0, npick |-> 0,
   at_start |-> <<>>, moved |-> {}, p_at_start |-> <<>>, pmoved |-> {},
   nmoves |-> 0, seen |-> {}, hits |-> <<>>, dodged |-> {}, recycled |-> <<>>,
   pseen |-> {}, picked |-> <<>>, precycled |-> <<>>, score_start |-> 0,
   air |-> 0, last_flight |-> 0, air_jumps |-> 0, last_air_jumps |-> 0]

\* SidescrollingGame.__init__ up to its call of game_loop
Init ==
  /\ scenario \in Scenarios
  /\ scenario.createY \in CreateYs(scenario.variant)
  /\ variant = scenario.variant
  /\ px = PLAYER_START_X
  /\ py = GROUND
  /\ dy = 0
  /\ hitpoints = IF variant = 1 THEN HITPOINTS_MAIN ELSE HITPOINTS
  /\ obstacles = [o \in Obstacles |->
                    [x |-> SPAWN_X, y |-> OBSTACLE_Y, counted |-> FALSE]]
  /\ waiting_obstacles = [i \in 1..N_OBSTACLES |-> i]
  /\ in_play_obstacles = <<>>
  /\ pickups = [p \in Pickups |-> [x |-> SPAWN_X, y |-> scenario.createY]]
  /\ waiting_pickups = [i \in 1..N_PICKUPS |-> i]
  /\ in_play_pickups = <<>>
  /\ score = 0
  /\ obstacle_timer = 0
  /\ pickup_timer = PICKUP_TIMER_START
  /\ keys = {"space"}
  /\ listening = FALSE
  /\ pc = "timer"
  /\ cur = 0
  /\ game_over_events = 0
  /\ hist = InitHist

(* ---------------- the game loop ---------------- *)
World ==
  [obstacles |-> obstacles, in_play_obstacles |-> in_play_obstacles,
   waiting_obstacles |-> waiting_obstacles, pickups |-> pickups,
   in_play_pickups |-> in_play_pickups, waiting_pickups |-> waiting_pickups,
   hitpoints |-> hitpoints, score |-> score,
   fault |-> FALSE, paused |-> FALSE, cur |-> 0,
   life |-> hist.life, exits |-> hist.exits, ndodge |-> hist.ndodge,
   npick |-> hist.npick, moved |-> hist.moved, pmoved |-> hist.pmoved,
   p_at_start |-> hist.p_at_start,
   nmoves |-> hist.nmoves, seen |-> hist.seen, hits |-> hist.hits,
   dodged |-> hist.dodged, recycled |-> hist.recycled,
   pseen |-> hist.pseen, picked |-> hist.picked,
   precycled |-> hist.precycled]

\* the admission that leaves the timer as it is
spawn_keep_timer(timer, threshold, cap, waiting, in_play, draw) ==
  IF timer >= threshold /\ Len(in_play) < cap /\ Len(waiting) > 0 /\ draw
  THEN [timer |-> timer, waiting |-> Tail(waiting),
        in_play |-> Append(in_play, Head(waiting)), admitted |-> TRUE]
  ELSE [timer |-> timer, waiting |-> waiting, in_play |-> in_play,
        admitted |-> FALSE]

\* the admission with a timer that is reset whenever it has reached the
\* threshold, admission or not
spawn_reset_at_threshold(timer, threshold, cap, waiting, in_play, draw) ==
  IF timer >= threshold /\ Len(in_play) < cap /\ Len(waiting) > 0 /\ draw
  THEN [timer |-> 0, waiting |-> Tail(waiting),
        in_play |-> Append(in_play, Head(waiting)), admitted |-> TRUE]
  ELSE [timer |-> IF timer >= threshold THEN 0 ELSE timer,
        waiting |-> waiting, in_play |-> in_play, admitted |-> FALSE]

\* the admission of game_loop: timer is the incremented timer, draw the
\* outcome of the random.random() comparison.  The new [timer, waiting,
\* in_play, admitted].
spawn(timer, threshold, cap, waiting, in_play, draw) ==
  IF timer >= threshold /\ Len(in_play) < cap /\ Len(waiting) > 0 /\ draw
  THEN [timer |-> 0, waiting |-> Tail(waiting),
        in_play |-> Append(in_play, Head(waiting)), admitted |-> TRUE]
  ELSE [timer |-> timer, waiting |-> waiting, in_play |-> in_play,
        admitted |-> FALSE]

\* the rest of a tick after the obstacle loop returned or stopped: the
\* pickup loop, screen.update() and screen.ontimer(self.game_loop, FPS).
\* ppy is the player's y after fall.
Finish(w2, h) ==
  /\ obstacles' = w2.obstacles
  /\ in_play_obstacles' = w2.in_play_obstacles
  /\ waiting_obstacles' = w2.waiting_obstacles
  /\ pickups' = w2.pickups
  /\ in_play_pickups' = w2.in_play_pickups
  /\ waiting_pickups' = w2.waiting_pickups
  /\ hitpoints' = w2.hitpoints
  /\ score' = w2.score
  /\ pc' = IF w2.fault THEN "crashed" ELSE IF w2.paused THEN "hit" ELSE "timer"
  /\ cur' = IF w2.paused THEN w2.cur ELSE 0
  /\ hist' = [h EXCEPT !.life = w2.life, !.exits = w2.exits,
                       !.ndodge = w2.ndodge, !.npick = w2.npick,
                       !.moved = w2.moved, !.pmoved = w2.pmoved,
                       !.p_at_start = w2.p_at_start,
                       !.nmoves = w2.nmoves, !.seen = w2.seen,
                       !.hits = w2.hits, !.dodged = w2.dodged,
                       !.recycled = w2.recycled, !.picked = w2.picked,
                       !.precycled = w2.precycled, !.pseen = w2.pseen,
                       !.key_count = 0, !.key_moves = 0,
                       !.px_tick = px, !.dy_tick = dy']

Settle(w, ppy, h) ==
  IF w.paused \/ w.fault
  THEN Finish(w, h)
  ELSE LET wp == [w EXCEPT !.p_at_start = w.in_play_pickups, !.pmoved = {}]
       IN \E speed \in SpeedDraws(w.in_play_pickups),
             wobble \in WobbleDraws(w.in_play_pickups) :
            LET try == PickupLoop(variant, wp, 1, px, ppy, speed, wobble,
                                  scenario.resetY)
            IN \E y \in YDraws(try.waiting_pickups # w.waiting_pickups) :
                 Finish(PickupLoop(variant, wp, 1, px, ppy, speed, wobble, y), h)

\* the game-over branch without screen.clear() removing the key bindings
GameOverBranch_KeepKeys ==
  /\ pc' = "over"
  /\ keys' = keys
  /\ game_over_events' = game_over_events + 1
  /\ hist' = [hist EXCEPT !.ticks = @ + 1, !.branch = "over",
                          !.hp_start = hitpoints,
                          !.key_count = 0, !.key_moves = 0,
                          !.px_tick = px, !.dy_tick = dy]
  /\ UNCHANGED <<variant, px, py, dy, hitpoints, obstacles, waiting_obstacles,
                 in_play_obstacles, pickups, waiting_pickups, in_play_pickups,
                 score, obstacle_timer, pickup_timer, listening, cur, scenario>>

\* game_loop, the branch of a game that is over: show_game_over_screen.
\* screen.clear() removes the key bindings; no timer is set.
GameOverBranch ==
  /\ pc' = "over"
  /\ keys' = {}
  /\ game_over_events' = game_over_events + 1
  /\ hist' = [hist EXCEPT !.ticks = @ + 1, !.branch = "over",
                          !.hp_start = hitpoints,
                          !.key_count = 0, !.key_moves = 0,
                          !.px_tick = px, !.dy_tick = dy]
  /\ UNCHANGED <<variant, px, py, dy, hitpoints, obstacles, waiting_obstacles,
                 in_play_obstacles, pickups, waiting_pickups, in_play_pickups,
                 score, obstacle_timer, pickup_timer, listening, cur, scenario>>

\* game_loop, the branch of a running game, up to the end of the tick or to
\* the screen.update() of a collision in main2
RunBranch(drawO, drawP) ==
  LET so == spawn(obstacle_timer + 1, OBSTACLE_THRESHOLD, OBSTACLE_CAP,
                  waiting_obstacles, in_play_obstacles, drawO)
      sp == spawn(pickup_timer + 1, PICKUP_THRESHOLD, PICKUP_CAP,
                  waiting_pickups, in_play_pickups, drawP)
      f == fall(py, dy)
      w0 == [World EXCEPT !.in_play_obstacles = so.in_play,
                          !.waiting_obstacles = so.waiting,
                          !.in_play_pickups = sp.in_play,
                          !.waiting_pickups = sp.waiting,
                          !.moved = {}, !.pmoved = {}, !.p_at_start = <<>>,
                          !.nmoves = 0, !.seen = {}, !.hits = <<>>,
                          !.dodged = {}, !.recycled = <<>>,
                          !.pseen = {}, !.picked = <<>>, !.precycled = <<>>]
      w1 == ObstacleLoop(variant, w0, 1, px, f.y)
      landed == f.y = GROUND
      h == [hist EXCEPT !.ticks = @ + 1, !.branch = "run",
                        !.hp_start = hitpoints, !.score_start = score,
                        !.nadmit_o = IF so.admitted THEN @ + 1 ELSE @,
                        !.nadmit_p = IF sp.admitted THEN @ + 1 ELSE @,
                        !.admit_o = so.admitted, !.admit_p = sp.admitted,
                        !.last_o = IF so.admitted THEN hist.ticks + 1 ELSE @,
                        !.last_p = IF sp.admitted THEN hist.ticks + 1 ELSE @,
                        !.gap_o = IF so.admitted /\ hist.last_o > 0
                                  THEN hist.ticks + 1 - hist.last_o ELSE @,
                        !.gap_p = IF sp.admitted /\ hist.last_p > 0
                                  THEN hist.ticks + 1 - hist.last_p ELSE @,
                        !.otimer_prev = obstacle_timer,
                        !.ptimer_prev = pickup_timer,
                        !.at_start = so.in_play,
                        !.air = IF landed THEN 0 ELSE @ + 1,
                        !.last_flight = IF landed /\ hist.air > 0
                                        THEN hist.air + 1 ELSE @,
                        !.air_jumps = IF landed THEN 0 ELSE @,
                        !.last_air_jumps = IF landed /\ hist.air > 0
                                           THEN hist.air_jumps ELSE @]
  IN /\ obstacle_timer' = so.timer
     /\ pickup_timer' = sp.timer
     /\ listening' = TRUE
     /\ keys' = keys \cup {"a", "d"}
     /\ py' = f.y
     /\ dy' = f.dy
     /\ Settle(w1, f.y, h)
     /\ UNCHANGED <<variant, px, game_over_events, scenario>>

\* the timer callback game_loop
Tick ==
  /\ pc = "timer"
  /\ ScriptedKeys => ScriptKey = "none"
  /\ hist.ticks < scenario.freeAt + MaxFree
  /\ IF game_over(hitpoints)
     THEN GameOverBranch
     ELSE \E drawO \in ODraws, drawP \in PDraws : RunBranch(drawO, drawP)

\* screen.update() in the collision branch of main2's handle_obstacle
\* returns: the rest of handle_obstacle and of the tick
Resume ==
  /\ pc = "hit"
  /\ ScriptedKeys => ScriptKey = "none"
  /\ UNCHANGED <<variant, px, py, dy, obstacle_timer, pickup_timer,
                 keys, listening, game_over_events, scenario>>
  /\ LET o == in_play_obstacles[cur]
         w1 == ObstacleLoop(variant, take_damage(World, o), cur + 1, px, py)
     IN Settle(w1, py, hist)

(* ---------------- key handlers ---------------- *)
MoveLeft ==
  /\ KeyEvent("a")
  /\ px' = move_left(variant, px)
  /\ hist' = [hist EXCEPT !.key_count = @ + 1, !.key_moves = @ + 1,
                          !.keyed = TRUE]
  /\ UNCHANGED <<variant, py, dy, hitpoints, obstacles, waiting_obstacles,
                 in_play_obstacles, pickups, waiting_pickups, in_play_pickups,
                 score, obstacle_timer, pickup_timer, keys, listening, pc, cur,
                 game_over_events, scenario>>

MoveRight ==
  /\ KeyEvent("d")
  /\ px' = move_right(variant, px)
  /\ hist' = [hist EXCEPT !.key_count = @ + 1, !.key_moves = @ + 1,
                          !.keyed = TRUE]
  /\ UNCHANGED <<variant, py, dy, hitpoints, obstacles, waiting_obstacles,
                 in_play_obstacles, pickups, waiting_pickups, in_play_pickups,
                 score, obstacle_timer, pickup_timer, keys, listening, pc, cur,
                 game_over_events, scenario>>

Jump ==
  /\ KeyEvent("space")
  /\ dy' = jump(py, dy)
  /\ hist' = [hist EXCEPT !.key_count = @ + 1, !.keyed = TRUE,
                          !.air_jumps = IF py > GROUND THEN @ + 1 ELSE @]
  /\ UNCHANGED <<variant, px, py, hitpoints, obstacles, waiting_obstacles,
                 in_play_obstacles, pickups, waiting_pickups, in_play_pickups,
                 score, obstacle_timer, pickup_timer, keys, listening, pc, cur,
                 game_over_events, scenario>>

Next == Tick \/ Resume \/ MoveLeft \/ MoveRight \/ Jump

Spec == Init /\ [][Next]_vars

(* ======================= the claims ======================= *)

\* the number of fall ticks of a jump: impulse 15, gravity 1
FLIGHT_TICKS == (2 * JUMP_IMPULSE) \div GRAVITY + 1

StartHitpoints == IF variant = 1 THEN HITPOINTS_MAIN ELSE HITPOINTS

\* C1: pool conservation.  In every state, also inside a tick of main2 that
\* waits in screen.update(), the waiting and the in-play list of obstacles
\* hold N_OBSTACLES entries together, and those of pickups N_PICKUPS.
C1_PoolConservation ==
  /\ Len(waiting_obstacles) + Len(in_play_obstacles) = N_OBSTACLES
  /\ Len(waiting_pickups) + Len(in_play_pickups) = N_PICKUPS

\* an obstacle and a pickup are in play after a pickup was collected, an
\* obstacle was recycled and keys were pressed
C1_Witness ==
  /\ in_play_obstacles # <<>>
  /\ in_play_pickups # <<>>
  /\ hist.npick > 0
  /\ hist.key_count > 0
  /\ \E o \in Obstacles : hist.exits[o].path # "none"

\* C2: hitpoints are never negative.
C2_HitpointsNonNegative == hitpoints >= 0

\* C3: a tick takes the game-over branch exactly when hitpoints <= 0 at its
\* start; after it no tick is scheduled and nothing of the game changes.
C3_GameOverTerminal ==
  /\ [](hist.ticks > 0 => (hist.branch = "over" <=> hist.hp_start <= 0))
  /\ [](hist.branch = "over" <=> pc = "over")
  /\ [][pc = "over" =>
          UNCHANGED <<px, py, dy, hitpoints, obstacles, waiting_obstacles,
                      in_play_obstacles, pickups, waiting_pickups,
                      in_play_pickups, score, obstacle_timer, pickup_timer,
                      pc, game_over_events>>]_vars

\* the game is over after a tick that started with hitpoints 0
C3_Witness ==
  pc = "over" /\ hist.branch = "over" /\ hist.hp_start <= 0 /\ score > 0

\* C4: the tick in which hitpoints reach 0 moves and resolves every obstacle
\* and pickup that is in play in it; the game-over screen is drawn once.
C4_ScenarioE ==
  /\ (pc = "timer" /\ hist.branch = "run" /\ hist.hp_start > 0 /\ hitpoints <= 0)
       => /\ \A i \in 1..Len(hist.at_start) : hist.at_start[i] \in hist.moved
          /\ \A i \in 1..Len(hist.p_at_start) : hist.p_at_start[i] \in hist.pmoved
  /\ game_over_events <= 1
  /\ pc = "over" => game_over_events = 1

\* C5: between its admission and its recycle an obstacle is counted as
\* dodged at most once, each count being one point of the score.
C5_SingleCounting ==
  /\ \A o \in Obstacles :
       /\ hist.life[o].dodges <= 1
       /\ hist.exits[o].dodges <= 1
       /\ obstacles[o].counted <=> hist.life[o].dodges = 1
  /\ score = DODGE_POINTS * hist.ndodge + PICKUP_POINTS * hist.npick

\* a counted obstacle that the player had moved back to the left of is
\* resolved again left of the player, and is not counted again
C5_Witness ==
  /\ pc = "timer" /\ hist.key_count = 0
  /\ \E o \in hist.moved :
       /\ InList(in_play_obstacles, o)
       /\ hist.life[o].behind
       /\ hist.life[o].dodges = 1
       /\ obstacles[o].x < px

\* C6 as claimed: between two ticks the player is displaced by at most one
\* PLAYER_SPEED step.
C6_OncePerTick == pc = "timer" => Abs(px - hist.px_tick) <= PLAYER_SPEED

\* C6 as amended: every move event displaces the player by at most one
\* PLAYER_SPEED step, so the displacement since the last tick is at most
\* PLAYER_SPEED times the number of move events; jump events set dy to the
\* impulse and never add to it.
C6_PerEvent ==
  /\ Abs(px - hist.px_tick) <= PLAYER_SPEED * hist.key_moves
  /\ dy \in {hist.dy_tick, JUMP_IMPULSE}

\* several move events between two ticks, each of them applied
C6_Witness ==
  /\ pc = "timer"
  /\ hist.key_moves >= 2
  /\ Abs(px - hist.px_tick) = PLAYER_SPEED * hist.key_moves

C8_Landing ==
  /\ hist.air < FLIGHT_TICKS
  /\ hist.air > 0 =>
       /\ py = GROUND + (hist.air * (FLIGHT_TICKS - hist.air) * GRAVITY) \div 2
       /\ dy = JUMP_IMPULSE - hist.air * GRAVITY
  /\ hist.last_flight \in {0, FLIGHT_TICKS}
  /\ (hist.air = 0 /\ hist.ticks > 0 /\ pc = "timer" /\ hist.key_count = 0)
       => (py = GROUND /\ dy = 0)

\* the player has landed from a jump during which jump was pressed again
C8_Witness ==
  /\ hist.last_flight = FLIGHT_TICKS /\ hist.last_air_jumps > 0
  /\ hist.air = 0 /\ py = GROUND /\ dy = 0

\* C9: the score never decreases and is made of dodge points and pickup
\* points; hitpoints never increase.
C9_Monotonic ==
  /\ [](score = DODGE_POINTS * hist.ndodge + PICKUP_POINTS * hist.npick)
  /\ [][score' >= score /\ hitpoints' <= hitpoints]_vars

\* dodge points, pickup points and damage have all occurred
C9_Witness ==
  hist.ndodge >= 1 /\ hist.npick >= 1 /\ hitpoints < StartHitpoints

\* C10 as claimed: an obstacle recycled without ever having been resolved
\* in collision range left through the off-screen path, with no score and
\* no damage.
C10_ScenarioC ==
  \A o \in Obstacles :
    (hist.exits[o].path # "none" /\ ~hist.exits[o].inrange)
      => /\ hist.exits[o].path = "offscreen"
         /\ hist.exits[o].dodges = 0
         /\ hist.exits[o].damage = 0

\* C10 as amended: such an obstacle left through the off-screen path with
\* no damage, and raised the score by at most its one dodge point.
C10_OffscreenNoDamage ==
  \A o \in Obstacles :
    /\ (hist.exits[o].path # "none" /\ ~hist.exits[o].inrange)
         => /\ hist.exits[o].path = "offscreen"
            /\ hist.exits[o].damage = 0
            /\ hist.exits[o].dodges <= 1
    /\ ~hist.life[o].inrange
         => (hist.life[o].damage = 0 /\ hist.life[o].dodges <= 1)

\* an obstacle that the player jumped over has left the screen
C10_Witness ==
  \E o \in Obstacles :
    /\ hist.exits[o].path = "offscreen"
    /\ ~hist.exits[o].inrange
    /\ hist.exits[o].dodges = 1

\* the elements of a sequence
Elems(s) == {s[i] : i \in 1..Len(s)}

\* the last n entries of a sequence
LastN(s, n) == SubSeq(s, Len(s) - n + 1, Len(s))

\* C11: at the end of a running tick, every obstacle that was resolved in
\* collision range and on the screen has taken exactly one hitpoint, and
\* every obstacle that took one is in the waiting list at the spawn
\* position with counted = FALSE, was appended to the tail of the waiting
\* list when it was recycled, and gave no score in that tick.
C11_Collision ==
  (pc = "timer" /\ hist.branch = "run") =>
     /\ hist.seen \subseteq Elems(hist.hits)
     /\ Cardinality(Elems(hist.hits)) = Len(hist.hits)
     /\ hitpoints = hist.hp_start - Len(hist.hits)
     /\ Len(hist.recycled) <= Len(waiting_obstacles)
     /\ LastN(waiting_obstacles, Len(hist.recycled)) = hist.recycled
     /\ \A o \in Elems(hist.hits) :
           /\ o \in Elems(hist.recycled)
           /\ ~InList(in_play_obstacles, o)
           /\ obstacles[o] = [x |-> SPAWN_X, y |-> OBSTACLE_Y, counted |-> FALSE]
           /\ hist.exits[o].path = "collision"
           /\ hist.exits[o].damage = 1
           /\ o \notin hist.dodged

\* a tick of main2 in which an obstacle on the screen hit the player, who
\* plays on
C11_Witness ==
  /\ pc = "timer" /\ hist.branch = "run"
  /\ hist.hits # <<>> /\ Elems(hist.hits) \subseteq hist.seen
  /\ hitpoints > 0
  /\ in_play_obstacles # <<>>

C13_ScenarioA ==
  (hist.ticks <= 100 /\ ~hist.keyed /\ hist.nadmit_o = 0) =>
     /\ hitpoints = StartHitpoints
     /\ score = 0
     /\ py = GROUND

\* 100 ticks have passed without a key and without an obstacle; a pickup
\* admitted in tick 1 is in play and has moved 100 times at full speed
C13_Witness ==
  /\ hist.ticks = 100 /\ ~hist.keyed /\ hist.nadmit_o = 0
  /\ hist.nadmit_p = 1
  /\ \E i \in 1..Len(in_play_pickups) :
        pickups[in_play_pickups[i]].x = SPAWN_X - 100 * OBJECT_SPEED

\* C14 as claimed: a running tick in which a timer has reached its
\* threshold resets it, so after a running tick the obstacle timer is below
\* 30 and the pickup timer below 12.
C14_CooldownReset ==
  hist.branch = "run" =>
     /\ obstacle_timer < OBSTACLE_THRESHOLD
     /\ pickup_timer < PICKUP_THRESHOLD

\* C14 as amended: a running tick resets a timer exactly when it admits an
\* entity of that kind, which needs the threshold reached; otherwise the
\* timer is one more than before the tick, also at and above the threshold.
C14_ResetOnAdmission ==
  hist.branch = "run" =>
     /\ IF hist.admit_o
        THEN obstacle_timer = 0 /\ hist.otimer_prev + 1 >= OBSTACLE_THRESHOLD
        ELSE obstacle_timer = hist.otimer_prev + 1
     /\ IF hist.admit_p
        THEN pickup_timer = 0 /\ hist.ptimer_prev + 1 >= PICKUP_THRESHOLD
        ELSE pickup_timer = hist.ptimer_prev + 1

\* an obstacle is admitted in the tick after one in which the timer had
\* reached the threshold and the draw failed
C14_Witness ==
  /\ hist.branch = "run" /\ hist.admit_o
  /\ hist.otimer_prev >= OBSTACLE_THRESHOLD
  /\ obstacle_timer = 0
  /\ pickup_timer > PICKUP_THRESHOLD

\* C15: at the end of a running tick every obstacle that was in play when
\* the obstacle loop started has been moved (and handled) in it, and
\* Obstacle.move ran once per such obstacle.
C15_EveryObstacleOnce ==
  (pc = "timer" /\ hist.branch = "run") =>
     /\ hist.moved = Elems(hist.at_start)
     /\ hist.nmoves = Len(hist.at_start)

\* C16: no step admits more than one obstacle or more than one pickup (a
\* waiting list loses at most one entity in a step), two successive
\* admissions of obstacles are at least 30 ticks apart and two successive
\* admissions of pickups at least 12.
C16_RateLimit ==
  /\ [][/\ Len(waiting_obstacles') >= Len(waiting_obstacles) - 1
         /\ Len(in_play_obstacles') <= Len(in_play_obstacles) + 1
         /\ Len(waiting_pickups') >= Len(waiting_pickups) - 1
         /\ Len(in_play_pickups') <= Len(in_play_pickups) + 1]_vars
  /\ [](hist.gap_o = 0 \/ hist.gap_o >= OBSTACLE_THRESHOLD)
  /\ [](hist.gap_p = 0 \/ hist.gap_p >= PICKUP_THRESHOLD)
  /\ [](hist.last_o > 0 => hist.ticks - hist.last_o >= obstacle_timer)
  /\ [](hist.last_p > 0 => hist.ticks - hist.last_p >= pickup_timer)

\* a second obstacle was admitted 30 ticks after the first, and a second
\* pickup after the first had been collected
C16_Witness ==
  /\ hist.gap_o = OBSTACLE_THRESHOLD
  /\ hist.gap_p >= PICKUP_THRESHOLD
  /\ hist.nadmit_o >= 2 /\ hist.nadmit_p >= 2

\* a is an initial part of b
IsPrefix(a, b) == Len(a) <= Len(b) /\ SubSeq(b, 1, Len(a)) = a

\* one step of a pool: either nothing is admitted and the waiting list is
\* extended at its tail, or its head is admitted and the rest of it is
\* extended at its tail; what is appended was in play or is the head
FifoStep(wait, wait2, play, play2) ==
  /\ \/ Elems(play2) \subseteq Elems(play) /\ IsPrefix(wait, wait2)
     \/ /\ wait # <<>>
        /\ (Elems(play2) \ Elems(play)) \subseteq {Head(wait)}
        /\ IsPrefix(Tail(wait), wait2)
  /\ Elems(wait2) \subseteq Elems(wait) \cup Elems(play)

\* every entity is in exactly one list of its pool, once
NoDuplicates(wait, play, n) ==
  /\ Cardinality(Elems(wait) \cup Elems(play)) = n
  /\ Len(wait) + Len(play) = n

\* C17: every step takes at most the head from a waiting list and appends
\* what it recycles to the tail, leaving the order of the waiting entities
\* as it was; no entity is in two lists or twice in one.
C17_Fifo ==
  /\ [][/\ FifoStep(waiting_obstacles, waiting_obstacles',
                     in_play_obstacles, in_play_obstacles')
         /\ FifoStep(waiting_pickups, waiting_pickups',
                     in_play_pickups, in_play_pickups')]_vars
  /\ [](NoDuplicates(waiting_obstacles, in_play_obstacles, N_OBSTACLES))
  /\ [](NoDuplicates(waiting_pickups, in_play_pickups, N_PICKUPS))

\* the first obstacle, recycled after all others had been admitted, has
\* been admitted again from the head of the waiting list
C17_Witness ==
  /\ hist.nadmit_o > N_OBSTACLES
  /\ hist.exits[1].path = "offscreen"
  /\ in_play_obstacles # <<>>
  /\ in_play_obstacles[Len(in_play_obstacles)] = 1

\* the height of a jump: 15 + 14 + ... + 1
JUMP_HEIGHT_MAX == (JUMP_IMPULSE * (JUMP_IMPULSE + GRAVITY)) \div (2 * GRAVITY)

\* a step of the jump handler: a key event that is not a move
JumpStep ==
  hist'.key_count = hist.key_count + 1 /\ hist'.key_moves = hist.key_moves

\* C18: a jump request at ground level sets dy to 15; above the ground it
\* leaves dy as it is; it never changes x or y; and the player is never
\* higher above the ground than one jump takes it, 120.
C18_NoDoubleJump ==
  /\ [][JumpStep =>
          /\ dy' = IF py > GROUND THEN dy ELSE JUMP_IMPULSE
          /\ px' = px /\ py' = py]_vars
  /\ [](py <= GROUND + JUMP_HEIGHT_MAX)

\* the player is at the top of a jump during which jump was pressed again
C18_Witness ==
  /\ py = GROUND + JUMP_HEIGHT_MAX
  /\ hist.air_jumps > 0

\* C19: in main2 the player's horizontal extent stays between the left
\* edge of the screen and the wall.
C19_WallConfinement ==
  variant = 2 =>
     /\ px - OBJECT_SIZE \div 2 >= (-SCREEN_WIDTH) \div 2
     /\ px + OBJECT_SIZE \div 2 <= WALL

\* C20: list.remove never raises, that is reset_obstacle and reset_pickup
\* are only called on an entity in play, and no entity is in a waiting
\* list twice.
C20_RecycleInPlay ==
  /\ pc # "crashed"
  /\ Cardinality(Elems(waiting_obstacles)) = Len(waiting_obstacles)
  /\ Cardinality(Elems(waiting_pickups)) = Len(waiting_pickups)

\* in main.py an obstacle that was off the screen hit the player and was
\* recycled by the collision branch; the off-screen test that follows in
\* the same call did not recycle it again
C20_Witness ==
  /\ variant = 1 /\ pc = "timer"
  /\ \E o \in Elems(hist.hits) :
        /\ hist.exits[o].path = "collision"
        /\ is_out_of_screen(hist.exits[o].x)
        /\ hist.recycled = <<o>>
        /\ InList(waiting_obstacles, o)

\* the distance below which check_collision holds on an axis
COLLISION_RANGE == OBJECT_SIZE \div 2 - BUFFER

\* C21: in main2 every point in collision range of the player in x is on
\* the screen, no obstacle in play is off the screen and in collision
\* range of the player, and no obstacle that handle_obstacle recycled
\* through its off-screen branch was in collision range in that call (the
\* collision branch, tested first, would not have been taken either).
C21_NoOffscreenHit ==
  variant = 2 =>
     /\ ~is_out_of_screen(px - COLLISION_RANGE + 1)
     /\ \A i \in 1..Len(in_play_obstacles) :
           LET o == in_play_obstacles[i]
           IN ~(/\ is_out_of_screen(obstacles[o].x)
                /\ check_collision(obstacles[o].x, obstacles[o].y, px, py))
     /\ \A o \in Obstacles :
           hist.exits[o].path = "offscreen" =>
              /\ is_out_of_screen(hist.exits[o].x)
              /\ ~hist.exits[o].inrange
              /\ hist.exits[o].damage = 0

\* in main2 an obstacle that the player had jumped over has left the
\* screen while the player was at the left end of its zone, as near to it
\* as it can be
C21_Witness ==
  /\ variant = 2 /\ pc = "timer" /\ hist.key_count = 0
  /\ move_left(variant, px) = px
  /\ \E o \in Elems(hist.recycled) :
        /\ hist.exits[o].path = "offscreen"
        /\ is_out_of_screen(hist.exits[o].x)
        /\ hist.exits[o].dodges = 1

====
